---- MODULE Spec2Model ----
(***************************************************************************)
(* A model of kelvinlim/nihreporter_get_funding.                           *)
(*                                                                         *)
(*   create_name_list.py : the regex tokenizer of a concatenated name      *)
(*                         blob, the strip loop and the dedup loop         *)
(*   get_funding.py      : format_date, format_currency, get_nih_funding,  *)
(*                         display_funding_info and the roster loop        *)
(*                                                                         *)
(* Python strings are sequences of one-character strings, so that parsing  *)
(* and formatting are computed character by character.  The character "'"  *)
(* stands for U+2019 (the right single quotation mark the source uses in   *)
(* its character classes); the ASCII apostrophe does not occur.            *)
(* Python values are tagged tuples: <<"none">>, <<"str", chars>>,          *)
(* <<"int", n>>, <<"dict", org_name>>; a key that a dict does not hold is  *)
(* <<"absent">>, so <<"dict", <<"absent">>>> is the empty dict {}.         *)
(***************************************************************************)
EXTENDS Integers, Sequences, FiniteSets, TLC

VARIABLES
    pc,                         \* position of the running script / call
    \* ---- create_name_list.py
    segments,                   \* the (last, first) segments raw_data was written from
    raw_data,                   \* create_name_list.py:4
    matches,                    \* create_name_list.py:18
    name_list_with_duplicates,  \* create_name_list.py:21
    unique_name_list,           \* create_name_list.py:32
    seen_names,                 \* create_name_list.py:33
    \* ---- get_funding.py, display_funding_info
    today,                      \* get_funding.py:142
    funding_data,               \* the argument of display_funding_info
    pos,                        \* index of the next element of the running for loop
    active_grants,              \* get_funding.py:146
    grant_list,                 \* get_funding.py:150
    result,                     \* what the call returned, or the exception it raised
    \* ---- get_funding.py, module level
    piList,                     \* get_funding.py:265
    pi_index,                   \* index of the roster entry the for loop is at
    outcomes,                   \* what the funding query did for each entry so far
    grant_lists,                \* get_funding.py:278
    exported                    \* the rows handed to DataFrame.to_csv, get_funding.py:295

vars == <<pc, segments, raw_data, matches, name_list_with_duplicates,
          unique_name_list, seen_names, today, funding_data, pos,
          active_grants, grant_list, result, piList, pi_index, outcomes,
          grant_lists, exported>>

namesVars == <<segments, raw_data, matches, name_list_with_duplicates,
               unique_name_list, seen_names>>
displayVars == <<today, funding_data, pos, active_grants, grant_list, result>>
batchVars == <<piList, pi_index, outcomes, grant_lists, exported>>

-----------------------------------------------------------------------------
(* Bounds *)

MaxSegs == 3
MaxGrants == 2
MaxRoster == 2

-----------------------------------------------------------------------------
(* Sequences and strings *)

Range(s) == {s[i] : i \in 1..Len(s)}

SeqsUpTo(S, n) == UNION {[1..k -> S] : k \in 0..n}

NoRepeat(s) == \A i, j \in 1..Len(s) : s[i] = s[j] => i = j

RECURSIVE Concat(_)
Concat(ss) == IF ss = <<>> THEN <<>> ELSE Head(ss) \o Concat(Tail(ss))

Upper == {"A", "B", "C", "D", "E", "F", "G", "H", "I", "J", "K", "L", "M",
          "N", "O", "P", "Q", "R", "S", "T", "U", "V", "W", "X", "Y", "Z"}
Lower == {"a", "b", "c", "d", "e", "f", "g", "h", "i", "j", "k", "l", "m",
          "n", "o", "p", "q", "r", "s", "t", "u", "v", "w", "x", "y", "z"}
Apos == "'"

\* [A-Za-z'\-]   group 1 of the pattern
LastNameChars == Upper \cup Lower \cup {Apos, "-"}
\* [A-Za-z.\- ]  group 2 of the pattern
FirstNameChars == Upper \cup Lower \cup {".", "-", " "}
\* [a-z'\-]      the tail of the lookahead
NextTailChars == Lower \cup {Apos, "-"}
\* \s and str.strip(): of the whitespace characters only the space is in the
\* modelled alphabet
Whitespace == {" "}

UpperSeq == <<"A", "B", "C", "D", "E", "F", "G", "H", "I", "J", "K", "L", "M",
              "N", "O", "P", "Q", "R", "S", "T", "U", "V", "W", "X", "Y", "Z">>
LowerSeq == <<"a", "b", "c", "d", "e", "f", "g", "h", "i", "j", "k", "l", "m",
              "n", "o", "p", "q", "r", "s", "t", "u", "v", "w", "x", "y", "z">>
FoldChar(c) ==
    IF c \in Upper THEN LowerSeq[CHOOSE i \in 1..26 : UpperSeq[i] = c] ELSE c
FoldStr(s) == [i \in 1..Len(s) |-> FoldChar(s[i])]
FoldName(n) == <<FoldStr(n[1]), FoldStr(n[2])>>

\* str.strip()
RECURSIVE LStrip(_)
LStrip(s) ==
    IF s # <<>> /\ Head(s) \in Whitespace THEN LStrip(Tail(s)) ELSE s
RECURSIVE RStrip(_)
RStrip(s) ==
    IF s # <<>> /\ s[Len(s)] \in Whitespace
    THEN RStrip(SubSeq(s, 1, Len(s) - 1)) ELSE s
Strip(s) == RStrip(LStrip(s))

-----------------------------------------------------------------------------
(* create_name_list.py: the pattern, re.findall                            *)

\* (?=[A-Z][a-z'\-]+,|$) at the position before s[p]
LookaheadNoComma(s, p) ==
    \/ p = Len(s) + 1
    \/ /\ p + 1 <= Len(s)
       /\ s[p] \in Upper
       /\ s[p + 1] \in NextTailChars
Lookahead(s, p) ==
    \/ p = Len(s) + 1
    \/ /\ p <= Len(s)
       /\ s[p] \in Upper
       /\ \E k \in (p + 1)..(Len(s) - 1) :
            /\ \A j \in (p + 1)..k : s[j] \in NextTailChars
            /\ s[k + 1] = ","

\* the last index of the run of characters of set cs that starts at s[p]
\* (p - 1 when s[p] is not in cs)
RECURSIVE RunEnd(_, _, _)
RunEnd(s, p, cs) ==
    IF p <= Len(s) /\ s[p] \in cs THEN RunEnd(s, p + 1, cs) ELSE p - 1

\* ([A-Za-z.\- ]+?)(?=...) from s[f]: the lazy group takes the fewest
\* characters after which the lookahead holds; 0 when there is no such end
FirstNameEnd(s, f) ==
    LET ends == {e \in f..RunEnd(s, f, FirstNameChars) : Lookahead(s, e + 1)}
    IN  IF ends = {} THEN 0
        ELSE CHOOSE e \in ends : \A x \in ends : e <= x

\* The pattern matched with group 1 starting at s[start].  Group 1 is greedy
\* and must be followed by the comma; \s* is greedy and gives characters back
\* only while group 2 cannot match.  <<>> when there is no match, else
\* <<group 1, group 2, index of the last character matched>>.
MatchAt(s, start) ==
    LET lastEnds == {e \in start..RunEnd(s, start, LastNameChars) :
                        e + 1 <= Len(s) /\ s[e + 1] = ","}
    IN  IF lastEnds = {} THEN <<>>
        ELSE
          LET e1 == CHOOSE e \in lastEnds : \A x \in lastEnds : x <= e
              c  == e1 + 1
              ws == {w \in 0..(RunEnd(s, c + 1, Whitespace) - c) :
                        FirstNameEnd(s, c + 1 + w) # 0}
          IN  IF ws = {} THEN <<>>
              ELSE
                LET w  == CHOOSE x \in ws : \A y \in ws : y <= x
                    f  == c + 1 + w
                    e2 == FirstNameEnd(s, f)
                IN  <<SubSeq(s, start, e1), SubSeq(s, f, e2), e2>>

\* re.findall(pattern, s): leftmost matches, each search resuming where the
\* previous match ended; one (group 1, group 2) tuple per match
RECURSIVE FindAllFrom(_, _)
FindAllFrom(s, p) ==
    IF p > Len(s) THEN <<>>
    ELSE LET m == MatchAt(s, p)
         IN  IF m = <<>> THEN FindAllFrom(s, p + 1)
             ELSE <<<<m[1], m[2]>>>> \o FindAllFrom(s, m[3] + 1)

FindAll(s) == FindAllFrom(s, 1)

\* create_name_list.py:24-29 for one match
CleanName(m) == <<Strip(m[1]), Strip(m[2])>>

\* "Last, First" as raw_data writes one segment
SegmentText(n) == n[1] \o <<",", " ">> \o n[2]
JoinSegments(ns) == Concat([i \in 1..Len(ns) |-> SegmentText(ns[i])])

-----------------------------------------------------------------------------
(* The names the blobs are written from (all occur in raw_data, line 4,    *)
(* but for the upper-case variant of Kelvin)                               *)

Lim       == <<"L", "i", "m">>
Kelvin    == <<"K", "e", "l", "v", "i", "n">>
KELVIN    == <<"K", "E", "L", "V", "I", "N">>
Carroll   == <<"C", "a", "r", "r", "o", "l", "l">>
Dana      == <<"D", "a", "n", "a">>
Conelea   == <<"C", "o", "n", "e", "l", "e", "a">>
Christine == <<"C", "h", "r", "i", "s", "t", "i", "n", "e">>
Redish    == <<"R", "e", "d", "i", "s", "h">>
ADavid    == <<"A", ".", " ", "D", "a", "v", "i", "d">>
McGue     == <<"M", "c", "G", "u", "e">>
Matthew   == <<"M", "a", "t", "t", "h", "e", "w">>
alAbsi    == <<"a", "l", "'", "A", "b", "s", "i">>
Mustafa   == <<"M", "u", "s", "t", "a", "f", "a">>

SegmentNames ==
    { <<Lim, Kelvin>>, <<Lim, KELVIN>>, <<Carroll, Dana>>,
      <<Conelea, Christine>>, <<Redish, ADavid>>, <<McGue, Matthew>>,
      <<alAbsi, Mustafa>> }

-----------------------------------------------------------------------------
(* create_name_list.py as a state machine *)

InitNames ==
    /\ segments \in SeqsUpTo(SegmentNames, MaxSegs)
    /\ raw_data = JoinSegments(segments)
    /\ matches = <<>>
    /\ name_list_with_duplicates = <<>>
    /\ unique_name_list = <<>>
    /\ seen_names = {}
    /\ pos = 1
    /\ pc = "findall"
    /\ today = <<0, 0, 0>>
    /\ funding_data = <<>>
    /\ active_grants = <<>>
    /\ grant_list = <<>>
    /\ result = <<"running">>
    /\ piList = <<>>
    /\ pi_index = 1
    /\ outcomes = <<>>
    /\ grant_lists = <<"unbound">>
    /\ exported = <<"no">>

\* line 18
RunFindAll ==
    /\ pc = "findall"
    /\ matches' = FindAll(raw_data)
    /\ pos' = 1
    /\ pc' = "strip"
    /\ UNCHANGED <<segments, raw_data, name_list_with_duplicates,
                   unique_name_list, seen_names, displayVars, batchVars>>

\* lines 24-29, one iteration
StripStep ==
    /\ pc = "strip"
    /\ pos <= Len(matches)
    /\ name_list_with_duplicates' =
           Append(name_list_with_duplicates, CleanName(matches[pos]))
    /\ pos' = pos + 1
    /\ UNCHANGED <<pc, segments, raw_data, matches, unique_name_list,
                   seen_names, today, funding_data, active_grants,
                   grant_list, result, batchVars>>

\* lines 32-33, once the loop of line 24 is exhausted
StartDedup ==
    /\ pc = "strip"
    /\ pos > Len(matches)
    /\ unique_name_list' = <<>>
    /\ seen_names' = {}
    /\ pos' = 1
    /\ pc' = "dedup"
    /\ UNCHANGED <<segments, raw_data, matches, name_list_with_duplicates,
                   today, funding_data, active_grants, grant_list, result,
                   batchVars>>

\* line 36: name_tuple not in seen_names
SeenIgnoringCase(name_tuple, seen) ==
    \E t \in seen : FoldName(t) = FoldName(name_tuple)
Seen(name_tuple, seen) == name_tuple \in seen

\* lines 35-38, one iteration
DedupStep ==
    /\ pc = "dedup"
    /\ pos <= Len(name_list_with_duplicates)
    /\ LET name_tuple == name_list_with_duplicates[pos]
       IN  IF ~Seen(name_tuple, seen_names)
           THEN /\ unique_name_list' = Append(unique_name_list, name_tuple)
                /\ seen_names' = seen_names \cup {name_tuple}
           ELSE UNCHANGED <<unique_name_list, seen_names>>
    /\ pos' = pos + 1
    /\ UNCHANGED <<pc, segments, raw_data, matches,
                   name_list_with_duplicates, today, funding_data,
                   active_grants, grant_list, result, batchVars>>

\* line 42
PrintNames ==
    /\ pc = "dedup"
    /\ pos > Len(name_list_with_duplicates)
    /\ pc' = "done"
    /\ UNCHANGED <<pos, namesVars, today, funding_data, active_grants,
                   grant_list, result, batchVars>>

NextNames ==
    \/ RunFindAll
    \/ StripStep
    \/ StartDedup
    \/ DedupStep
    \/ PrintNames

SpecNames == InitNames /\ [][NextNames]_vars

-----------------------------------------------------------------------------
(* get_funding.py: Python values, dates and the two formatters *)

None == <<"none">>
Absent == <<"absent">>
PyStr(chars) == <<"str", chars>>
PyInt(n) == <<"int", n>>
\* the nested organization object, whose one modelled key is org_name
PyDict(org_name) == <<"dict", org_name>>
EmptyDict == PyDict(Absent)

IsStr(v) == v[1] = "str"

\* truth value of a Python object (if x: / if not x:): None, '', 0 and {}
\* are false
Truthy(v) ==
    CASE v[1] = "none" -> FALSE
      [] v[1] = "str"  -> v[2] # <<>>
      [] v[1] = "int"  -> v[2] # 0
      [] v[1] = "dict" -> v # EmptyDict
      [] OTHER         -> TRUE

\* dict.get(key) and dict.get(key, default)
GetOr(grant, key, default) == IF grant[key] = Absent THEN default ELSE grant[key]
Get(grant, key) == GetOr(grant, key, None)

DigitChars == <<"0", "1", "2", "3", "4", "5", "6", "7", "8", "9">>
Digits == Range(DigitChars)
DigitVal(c) == (CHOOSE i \in 1..10 : DigitChars[i] = c) - 1
DigitOf(n) == DigitChars[n + 1]

RECURSIVE NatToStr(_)
NatToStr(n) ==
    IF n < 10 THEN <<DigitOf(n)>> ELSE Append(NatToStr(n \div 10), DigitOf(n % 10))

RECURSIVE ZeroPad(_, _)
ZeroPad(s, width) == IF Len(s) >= width THEN s ELSE ZeroPad(<<"0">> \o s, width)

\* datetime.date: <<year, month, day>>
IsLeap(y) == (y % 4 = 0 /\ y % 100 # 0) \/ y % 400 = 0
DaysInMonth(y, m) ==
    IF m = 2 THEN (IF IsLeap(y) THEN 29 ELSE 28)
    ELSE IF m \in {4, 6, 9, 11} THEN 30 ELSE 31
ValidDate(y, m, d) ==
    y \in 1..9999 /\ m \in 1..12 /\ d \in 1..DaysInMonth(y, m)

DateLessOrEqual(a, b) ==
    \/ a[1] < b[1]
    \/ a[1] = b[1] /\ a[2] < b[2]
    \/ a[1] = b[1] /\ a[2] = b[2] /\ a[3] <= b[3]
DateLess(a, b) ==
    \/ a[1] < b[1]
    \/ a[1] = b[1] /\ a[2] < b[2]
    \/ a[1] = b[1] /\ a[2] = b[2] /\ a[3] < b[3]

\* s.split('T')[0]
RECURSIVE SplitT0(_)
SplitT0(s) ==
    IF s = <<>> \/ Head(s) = "T" THEN <<>> ELSE <<Head(s)>> \o SplitT0(Tail(s))

\* datetime.strptime(s, '%Y-%m-%d').date(): the date, or <<>> for ValueError.
\* %Y is \d\d\d\d; %m is 1[0-2]|0[1-9]|[1-9]; %d is
\* 3[01]|[12]\d|0[1-9]|[1-9]| [1-9]; the alternatives are tried in this order,
\* text left over after the match is an error, and so is a date the calendar
\* does not have.
At(s, i) == IF i \in 1..Len(s) THEN s[i] ELSE ""
MonthLen(s, i) ==
    IF At(s, i) = "1" /\ At(s, i + 1) \in {"0", "1", "2"} THEN 2
    ELSE IF At(s, i) = "0" /\ At(s, i + 1) \in Digits \ {"0"} THEN 2
    ELSE IF At(s, i) \in Digits \ {"0"} THEN 1
    ELSE 0
DayLen(s, i) ==
    IF At(s, i) = "3" /\ At(s, i + 1) \in {"0", "1"} THEN 2
    ELSE IF At(s, i) \in {"1", "2"} /\ At(s, i + 1) \in Digits THEN 2
    ELSE IF At(s, i) = "0" /\ At(s, i + 1) \in Digits \ {"0"} THEN 2
    ELSE IF At(s, i) \in Digits \ {"0"} THEN 1
    ELSE IF At(s, i) = " " /\ At(s, i + 1) \in Digits \ {"0"} THEN 2
    ELSE 0
RECURSIVE NumVal(_)
NumVal(s) ==
    IF s = <<>> THEN 0
    ELSE IF s[Len(s)] = " " THEN NumVal(SubSeq(s, 1, Len(s) - 1))
    ELSE NumVal(SubSeq(s, 1, Len(s) - 1)) * 10 + DigitVal(s[Len(s)])
Strptime(s) ==
    IF ~(\A i \in 1..4 : At(s, i) \in Digits) \/ At(s, 5) # "-" THEN <<>>
    ELSE
      LET ml == MonthLen(s, 6)
      IN  IF ml = 0 \/ At(s, 6 + ml) # "-" THEN <<>>
          ELSE
            LET dl == DayLen(s, 7 + ml)
            IN  IF dl = 0 \/ 6 + ml + dl # Len(s) THEN <<>>
                ELSE
                  LET y == NumVal(SubSeq(s, 1, 4))
                      m == NumVal(SubSeq(s, 6, 5 + ml))
                      d == NumVal(SubSeq(s, 7 + ml, 6 + ml + dl))
                  IN  IF ValidDate(y, m, d) THEN <<y, m, d>> ELSE <<>>

\* lines 160 and 161: datetime.strptime(x.split('T')[0], '%Y-%m-%d').date()
ParseDatePart(chars) == Strptime(SplitT0(chars))

\* dt_obj.strftime('%m/%d/%Y'), for the four-digit years the model draws
Strftime(d) ==
    ZeroPad(NatToStr(d[2]), 2) \o <<"/">> \o ZeroPad(NatToStr(d[3]), 2)
        \o <<"/">> \o ZeroPad(NatToStr(d[1]), 4)

NA == PyStr(<<"N", "/", "A">>)

\* format_date, lines 25-38: <<"ok", value>> or <<"raise", exception, line>>
format_date(date_str) ==
    IF ~Truthy(date_str) THEN <<"ok", NA>>
    ELSE IF ~IsStr(date_str) THEN <<"raise", "AttributeError", 34>>
    ELSE LET d == ParseDatePart(date_str[2])
         IN  IF d = <<>> THEN <<"ok", date_str>> ELSE <<"ok", PyStr(Strftime(d))>>

\* the digits of n with a comma before every group of three from the right
RECURSIVE GroupThousands(_)
GroupThousands(ds) ==
    IF Len(ds) <= 3 THEN ds
    ELSE GroupThousands(SubSeq(ds, 1, Len(ds) - 3)) \o <<",">>
             \o SubSeq(ds, Len(ds) - 2, Len(ds))

\* format_currency, lines 40-50: f"${amount:,.0f}" of an int; a str raises
\* ValueError and any other object TypeError, both caught
format_currency(amount) ==
    IF amount = None THEN NA
    ELSE IF amount[1] = "int"
         THEN IF amount[2] >= 0
              THEN PyStr(<<"$">> \o GroupThousands(NatToStr(amount[2])))
              ELSE PyStr(<<"$", "-">> \o GroupThousands(NatToStr(0 - amount[2])))
    ELSE NA

-----------------------------------------------------------------------------
(* get_funding.py: display_funding_info, lines 132-231 *)

\* line 145
cutoff_date == <<2026, 1, 1>>

\* line 156: '2020-01-01T12:00:00Z'
DefaultEndDate ==
    PyStr(<<"2", "0", "2", "0", "-", "0", "1", "-", "0", "1", "T",
            "1", "2", ":", "0", "0", ":", "0", "0", "Z">>)

\* line 143: today.replace(year=today.year - 1) raises ValueError when the
\* previous year has no such day (today is 29 February)
ReplaceYearRaises(d) == ~ValidDate(d[1] - 1, d[2], d[3])

\* line 163
IsActiveOnOrAfterToday(budget_end_date, end_date, today_) ==
    DateLessOrEqual(today_, budget_end_date) /\ DateLessOrEqual(cutoff_date, end_date)
IsActive(budget_end_date, end_date, today_) ==
    DateLess(today_, budget_end_date) /\ DateLessOrEqual(cutoff_date, end_date)

\* lines 154-172, the body of the filter loop for one grant: <<"keep">>,
\* <<"skip">> or <<"raise", exception, line>>.  x.split raises AttributeError
\* when x is not a str, and only ValueError is caught.
FilterOne(grant, today_) ==
    LET budget_end_str == Get(grant, "budget_end")
        end_date_str == GetOr(grant, "project_end_date", DefaultEndDate)
    IN  IF ~Truthy(end_date_str) THEN <<"skip">>
        ELSE IF ~IsStr(budget_end_str) THEN <<"raise", "AttributeError", 160>>
        ELSE LET budget_end_date == ParseDatePart(budget_end_str[2])
             IN  IF budget_end_date = <<>> THEN <<"skip">>
                 ELSE IF ~IsStr(end_date_str) THEN <<"raise", "AttributeError", 161>>
                 ELSE LET end_date == ParseDatePart(end_date_str[2])
                      IN  IF end_date = <<>> THEN <<"skip">>
                          ELSE IF IsActive(budget_end_date, end_date, today_)
                               THEN <<"keep">>
                               ELSE <<"skip">>

\* line 189: grant.get("organization", {}).get("org_name", "N/A")
OrgName(grant) ==
    LET org == grant["organization"]
    IN  IF org = Absent THEN <<"ok", NA>>
        ELSE IF org[1] # "dict" THEN <<"raise", "AttributeError", 189>>
        ELSE IF org[2] = Absent THEN <<"ok", NA>>
        ELSE <<"ok", org[2]>>

\* lines 182-215, the body of the display loop for one active grant:
\* <<"ok", grant_dict>> or <<"raise", exception, line>>
ProjectOne(grant) ==
    LET org_name == OrgName(grant)
        start_date == format_date(Get(grant, "project_start_date"))
        end_date == format_date(Get(grant, "project_end_date"))
        budget_start == format_date(Get(grant, "budget_start"))
        budget_end == format_date(Get(grant, "budget_end"))
    IN  IF org_name[1] = "raise" THEN org_name
        ELSE IF start_date[1] = "raise" THEN start_date
        ELSE IF end_date[1] = "raise" THEN end_date
        ELSE IF budget_start[1] = "raise" THEN budget_start
        ELSE IF budget_end[1] = "raise" THEN budget_end
        ELSE <<"ok",
               [grant_num    |-> GetOr(grant, "project_num", NA),
                pi_name      |-> GetOr(grant, "contact_pi_name", NA),
                title        |-> GetOr(grant, "project_title", NA),
                org_name     |-> org_name[2],
                fy           |-> GetOr(grant, "fiscal_year", NA),
                award_amount |-> format_currency(Get(grant, "award_amount")),
                start_date   |-> start_date[2],
                end_date     |-> end_date[2],
                budget_start |-> budget_start[2],
                budget_end   |-> budget_end[2]]>>

\* lines 139-150
EnterDisplay ==
    /\ pc = "call"
    /\ IF ~(funding_data # <<>>)
       THEN /\ result' = <<"return", None>>
            /\ pc' = "returned"
       ELSE IF ReplaceYearRaises(today)
       THEN /\ result' = <<"raise", "ValueError", 143>>
            /\ pc' = "raised"
       ELSE /\ result' = <<"running">>
            /\ pc' = "filter"
    /\ active_grants' = <<>>
    /\ grant_list' = <<>>
    /\ pos' = 1
    /\ UNCHANGED <<namesVars, today, funding_data, batchVars>>

\* lines 153-172, one iteration
FilterStep ==
    /\ pc = "filter"
    /\ pos <= Len(funding_data)
    /\ LET grant == funding_data[pos]
           verdict == FilterOne(grant, today)
       IN  IF verdict[1] = "raise"
           THEN /\ result' = verdict
                /\ pc' = "raised"
                /\ UNCHANGED <<active_grants, pos>>
           ELSE /\ active_grants' =
                      IF verdict[1] = "keep" THEN Append(active_grants, grant)
                      ELSE active_grants
                /\ pos' = pos + 1
                /\ UNCHANGED <<pc, result>>
    /\ UNCHANGED <<namesVars, today, funding_data, grant_list, batchVars>>

\* lines 175-179, once the loop of line 153 is exhausted
FilterDone ==
    /\ pc = "filter"
    /\ pos > Len(funding_data)
    /\ IF active_grants = <<>>
       THEN /\ result' = <<"return", None>>
            /\ pc' = "returned"
       ELSE /\ pc' = "project"
            /\ UNCHANGED result
    /\ pos' = 1
    /\ UNCHANGED <<namesVars, today, funding_data, active_grants, grant_list,
                   batchVars>>

\* lines 180-226, one iteration
ProjectStep ==
    /\ pc = "project"
    /\ pos <= Len(active_grants)
    /\ LET row == ProjectOne(active_grants[pos])
       IN  IF row[1] = "raise"
           THEN /\ result' = row
                /\ pc' = "raised"
                /\ UNCHANGED <<grant_list, pos>>
           ELSE /\ grant_list' = Append(grant_list, row[2])
                /\ pos' = pos + 1
                /\ UNCHANGED <<pc, result>>
    /\ UNCHANGED <<namesVars, today, funding_data, active_grants, batchVars>>

\* lines 228-231
ReturnGrantList ==
    /\ pc = "project"
    /\ pos > Len(active_grants)
    /\ result' = <<"return", <<"list", grant_list>>>>
    /\ pc' = "returned"
    /\ UNCHANGED <<namesVars, today, funding_data, pos, active_grants,
                   grant_list, batchVars>>

-----------------------------------------------------------------------------
(* The raw grant records the model draws funding_data from *)

\* 'YYYY-MM-DDTHH:mm:ssZ' (line 27) for midnight of the day
Iso(y, m, d) ==
    PyStr(ZeroPad(NatToStr(y), 4) \o <<"-">> \o ZeroPad(NatToStr(m), 2)
            \o <<"-">> \o ZeroPad(NatToStr(d), 2)
            \o <<"T", "0", "0", ":", "0", "0", ":", "0", "0", "Z">>)

BaseGrant ==
    [project_num        |-> PyStr(<<"R", "0", "1">>),
     contact_pi_name    |-> PyStr(<<"L", "I", "M", ",", " ", "K">>),
     project_title      |-> PyStr(<<"T", "i", "t", "l", "e">>),
     award_amount       |-> PyInt(1234567),
     project_start_date |-> Iso(2021, 7, 1),
     project_end_date   |-> Iso(2027, 6, 30),
     budget_start       |-> Iso(2025, 7, 1),
     budget_end         |-> Iso(2026, 12, 31),
     fiscal_year        |-> PyInt(2025),
     organization       |-> PyDict(PyStr(<<"U", "M", "N">>))]

WithEnds(budget_end, project_end_date) ==
    [BaseGrant EXCEPT !.budget_end = budget_end,
                      !.project_end_date = project_end_date]

Unparsable == PyStr(<<"1", "2", "/", "3", "1", "/", "2", "0", "2", "6">>)

\* spec section 8: active at today = 2025-06-01 (project end on the cutoff)
GrantEndsOnCutoff    == WithEnds(Iso(2025, 12, 31), Iso(2026, 1, 1))
GrantEndsBeforeCutoff == WithEnds(Iso(2025, 12, 31), Iso(2025, 12, 31))
GrantBudgetLapsed    == WithEnds(Iso(2025, 5, 1), Iso(2027, 6, 30))
GrantBudgetEndsToday == WithEnds(Iso(2025, 6, 1), Iso(2027, 6, 30))
GrantNoProjectEnd    == WithEnds(Iso(2026, 12, 31), Absent)
GrantBadProjectEnd   == WithEnds(Iso(2026, 12, 31), Unparsable)
GrantBadBudgetEnd    == WithEnds(Unparsable, Iso(2027, 6, 30))
GrantNoBudgetEnd     == WithEnds(Absent, Iso(2027, 6, 30))
GrantNullBudgetEnd   == WithEnds(None, Iso(2027, 6, 30))
GrantNullProjectEnd  == WithEnds(Absent, None)
GrantEmptyProjectEnd == WithEnds(Iso(2026, 12, 31), PyStr(<<>>))
GrantNoEnds          == WithEnds(Absent, Absent)
GrantLongBudget      == WithEnds(Iso(2026, 12, 31), Iso(2026, 1, 1))
GrantDictProjectEnd  == WithEnds(None, EmptyDict)
GrantDictBudgetStart == [BaseGrant EXCEPT !.budget_start = EmptyDict]

FilterGrants ==
    { BaseGrant, GrantEndsOnCutoff, GrantEndsBeforeCutoff, GrantBudgetLapsed,
      GrantBudgetEndsToday, GrantNoProjectEnd, GrantBadProjectEnd,
      GrantBadBudgetEnd, GrantNoBudgetEnd, GrantNullBudgetEnd,
      GrantNullProjectEnd, GrantEmptyProjectEnd, GrantNoEnds, GrantLongBudget,
      GrantDictProjectEnd, GrantDictBudgetStart }

OptionalKeys ==
    {"project_num", "contact_pi_name", "project_title", "award_amount",
     "project_start_date", "budget_start", "fiscal_year", "organization"}

WithOptional(v) ==
    [key \in DOMAIN BaseGrant |->
        IF key \in OptionalKeys THEN v ELSE BaseGrant[key]]

GrantBare == WithOptional(Absent)
GrantNulls == WithOptional(None)
GrantOddValues ==
    [BaseGrant EXCEPT !.organization = EmptyDict,
                      !.award_amount = PyStr(<<"a", "b", "c">>),
                      !.project_start_date = PyStr(<<"T", "B", "D">>),
                      !.budget_start = PyStr(<<>>)]
GrantNullNumber == [BaseGrant EXCEPT !.project_num = None]

ProjectionGrants == {GrantBare, GrantNulls, GrantOddValues, GrantNullNumber}

SampleGrants == FilterGrants \cup ProjectionGrants

\* date.today(): the day of spec section 8, a day after the cutoff, a leap day
SampleTodays == { <<2025, 6, 1>>, <<2026, 6, 1>>, <<2028, 2, 29>> }

InitDisplay ==
    /\ today \in SampleTodays
    /\ funding_data \in SeqsUpTo(SampleGrants, MaxGrants)
    /\ pc = "call"
    /\ pos = 1
    /\ active_grants = <<>>
    /\ grant_list = <<>>
    /\ result = <<"running">>
    /\ segments = <<>>
    /\ raw_data = <<>>
    /\ matches = <<>>
    /\ name_list_with_duplicates = <<>>
    /\ unique_name_list = <<>>
    /\ seen_names = {}
    /\ piList = <<>>
    /\ pi_index = 1
    /\ outcomes = <<>>
    /\ grant_lists = <<"unbound">>
    /\ exported = <<"no">>

NextDisplay ==
    \/ EnterDisplay
    \/ FilterStep
    \/ FilterDone
    \/ ProjectStep
    \/ ReturnGrantList

SpecDisplay == InitDisplay /\ [][NextDisplay]_vars

-----------------------------------------------------------------------------
(* get_funding.py: get_nih_funding and the roster loop, lines 258-297 *)

\* What one funding query does: the request fails (RequestException, line
\* 115), the body does not decode (line 125), the response holds no results
\* (line 111), or it holds the records rs (line 110).
TransportError == <<"transport_error">>
DecodeError == <<"decode_error">>
NoResults == <<"no_results">>
Results(rs) == <<"results", rs>>

\* get_nih_funding, lines 97-130: what it returns for each outcome
get_nih_funding(outcome) ==
    IF outcome[1] = "results" /\ outcome[2] # <<>> THEN outcome[2] ELSE <<>>

BatchGrants == {GrantEndsOnCutoff, BaseGrant, GrantBudgetLapsed}

QueryOutcomes ==
    {TransportError, DecodeError, NoResults}
        \cup {Results(rs) : rs \in SeqsUpTo(BatchGrants, MaxGrants) \ {<<>>}}

RosterNames == { <<Lim, Kelvin>>, <<Carroll, Dana>>, <<Conelea, Christine>> }

\* the rows of unique_names.csv after the header: at least one, no row twice
Rosters ==
    {r \in SeqsUpTo(RosterNames, MaxRoster) : r # <<>> /\ NoRepeat(r)}

BatchToday == <<2025, 6, 1>>

Unbound == <<"unbound">>

InitBatch ==
    /\ piList \in Rosters
    /\ pi_index = 1
    /\ outcomes = <<>>
    /\ grant_lists = Unbound
    /\ exported = <<"no">>
    /\ today = BatchToday
    /\ funding_data = <<>>
    /\ pc = "loop"
    /\ pos = 1
    /\ active_grants = <<>>
    /\ grant_list = <<>>
    /\ result = <<"running">>
    /\ segments = <<>>
    /\ raw_data = <<>>
    /\ matches = <<>>
    /\ name_list_with_duplicates = <<>>
    /\ unique_name_list = <<>>
    /\ seen_names = {}

\* lines 270-274: the next roster entry is queried and display_funding_info
\* is called with what get_nih_funding returned
QueryNextPi ==
    /\ pc = "loop"
    /\ pi_index <= Len(piList)
    /\ \E outcome \in QueryOutcomes :
         /\ outcomes' = Append(outcomes, outcome)
         /\ funding_data' = get_nih_funding(outcome)
    /\ pc' = "call"
    /\ result' = <<"running">>
    /\ UNCHANGED <<namesVars, today, pos, active_grants, grant_list, piList,
                   pi_index, grant_lists, exported>>

\* lines 274-283: grant_list is what display_funding_info returned.  The
\* first entry binds grant_lists to it, None included; a later entry extends
\* grant_lists when its own list is not empty, and None has no extend.
Accumulate ==
    /\ pc = "returned"
    /\ pi_index <= Len(piList)
    /\ LET returned == result[2]
       IN  IF grant_lists = Unbound
           THEN /\ grant_lists' = returned
                /\ pc' = "loop"
                /\ pi_index' = pi_index + 1
                /\ UNCHANGED result
           ELSE IF returned = None \/ returned[2] = <<>>
           THEN /\ pc' = "loop"
                /\ pi_index' = pi_index + 1
                /\ UNCHANGED <<grant_lists, result>>
           ELSE IF grant_lists = None
           THEN /\ result' = <<"raise", "AttributeError", 283>>
                /\ pc' = "raised"
                /\ UNCHANGED <<grant_lists, pi_index>>
           ELSE /\ grant_lists' = <<"list", grant_lists[2] \o returned[2]>>
                /\ pc' = "loop"
                /\ pi_index' = pi_index + 1
                /\ UNCHANGED result
    /\ UNCHANGED <<namesVars, today, funding_data, pos, active_grants,
                   grant_list, piList, outcomes, exported>>

\* lines 286-297: pd.DataFrame(grant_lists).to_csv; DataFrame(None) has no rows
Export ==
    /\ pc = "loop"
    /\ pi_index > Len(piList)
    /\ IF grant_lists = Unbound
       THEN /\ result' = <<"raise", "NameError", 289>>
            /\ pc' = "raised"
            /\ UNCHANGED exported
       ELSE /\ exported' = <<"rows", IF grant_lists = None THEN <<>> ELSE grant_lists[2]>>
            /\ pc' = "exported"
            /\ UNCHANGED result
    /\ UNCHANGED <<namesVars, today, funding_data, pos, active_grants,
                   grant_list, piList, pi_index, outcomes, grant_lists>>

NextBatch ==
    \/ QueryNextPi
    \/ EnterDisplay
    \/ FilterStep
    \/ FilterDone
    \/ ProjectStep
    \/ ReturnGrantList
    \/ Accumulate
    \/ Export

SpecBatch == InitBatch /\ [][NextBatch]_vars

-----------------------------------------------------------------------------
(* Claims about create_name_list.py *)

CleanAll(ms) == [i \in 1..Len(ms) |-> CleanName(ms[i])]

\* a segment as spec 4.1 describes it: the last name one or more letters,
\* apostrophes or hyphens; the first name letters, periods, hyphens and
\* interior spaces
IsSegmentName(n) ==
    /\ n[1] # <<>> /\ Range(n[1]) \subseteq LastNameChars
    /\ n[2] # <<>> /\ Range(n[2]) \subseteq FirstNameChars
    /\ Strip(n[2]) = n[2]

\* "Capitalized Last, Capitalized First": the last name one upper-case letter
\* and then one or more lower-case letters, apostrophes or hyphens; the first
\* name starts with an upper-case letter
IsCapitalized(n) ==
    /\ IsSegmentName(n)
    /\ Len(n[1]) >= 2
    /\ n[1][1] \in Upper
    /\ \A i \in 2..Len(n[1]) : n[1][i] \in NextTailChars
    /\ n[2][1] \in Upper

AllSegmentNames == \A i \in 1..Len(segments) : IsSegmentName(segments[i])
AllCapitalized == \A i \in 1..Len(segments) : IsCapitalized(segments[i])

NoDuplicates(s) == \A i \in 1..Len(s) : \A j \in 1..Len(s) : i # j => s[i] # s[j]

FirstIndex(s, x) == CHOOSE i \in 1..Len(s) : s[i] = x /\ \A j \in 1..(i - 1) : s[j] # x

\* the elements of s that no earlier element of s equals, in the order of s
RECURSIVE FirstOccurrences(_)
FirstOccurrences(s) ==
    IF s = <<>> THEN <<>>
    ELSE LET init == SubSeq(s, 1, Len(s) - 1)
             last == s[Len(s)]
         IN  IF last \in Range(init) THEN FirstOccurrences(init)
             ELSE Append(FirstOccurrences(init), last)

\* "Carroll, DanaCarroll, DanaConelea, Christine"
BoundaryCaseBlob ==
    <<"C", "a", "r", "r", "o", "l", "l", ",", " ", "D", "a", "n", "a",
      "C", "a", "r", "r", "o", "l", "l", ",", " ", "D", "a", "n", "a",
      "C", "o", "n", "e", "l", "e", "a", ",", " ",
      "C", "h", "r", "i", "s", "t", "i", "n", "e">>

\* C5: for every blob that concatenates segments of the form of spec 4.1,
\* re.findall yields exactly the segments, in order, one pair per segment.
C5_TokenizerBoundary ==
    (pc # "findall" /\ AllSegmentNames) => matches = segments

\* C6: once the dedup loop has consumed the first pos - 1 pairs, its output has
\* no two equal pairs, holds every distinct pair consumed exactly once, and
\* lists the pairs in the order of their first occurrences in the input;
\* pairs are compared by exact equality of both strings.
C6_DedupInvariant ==
    pc \in {"dedup", "done"} =>
        LET consumed == SubSeq(name_list_with_duplicates, 1, pos - 1)
            out == unique_name_list
        IN  /\ NoDuplicates(out)
            /\ Range(out) = Range(consumed)
            /\ seen_names = Range(out)
            /\ \A k \in 1..Len(out) : \A l \in 1..Len(out) :
                   k < l => FirstIndex(consumed, out[k]) < FirstIndex(consumed, out[l])
            /\ pc = "done" => pos - 1 = Len(name_list_with_duplicates)

C6_Witness ==
    /\ pc = "done"
    /\ name_list_with_duplicates =
           << <<Lim, Kelvin>>, <<Lim, KELVIN>>, <<Lim, Kelvin>> >>
    /\ unique_name_list = << <<Lim, Kelvin>>, <<Lim, KELVIN>> >>

\* C8: for a blob of "Capitalized Last, Capitalized First" segments the
\* tokenizer yields one pair per segment, in order, repeats kept, and the
\* dedup loop then keeps the first occurrence of each; the boundary case of
\* spec section 8 tokenizes to (Carroll, Dana), (Carroll, Dana), (Conelea,
\* Christine) and deduplicates to (Carroll, Dana), (Conelea, Christine).
C8_CapitalizedPattern ==
    /\ (pc # "findall" /\ AllCapitalized) =>
           /\ matches = segments
           /\ pc = "done" =>
                 /\ name_list_with_duplicates = segments
                 /\ unique_name_list = FirstOccurrences(segments)
    /\ (pc # "findall" /\ raw_data = BoundaryCaseBlob) =>
           /\ matches = << <<Carroll, Dana>>, <<Carroll, Dana>>,
                           <<Conelea, Christine>> >>
           /\ pc = "done" =>
                 unique_name_list = << <<Carroll, Dana>>, <<Conelea, Christine>> >>

C8_Witness ==
    /\ pc = "done"
    /\ raw_data = BoundaryCaseBlob
    /\ Len(matches) = 3
    /\ unique_name_list = << <<Carroll, Dana>>, <<Conelea, Christine>> >>

\* C9: the trimmed pairs of any blob, joined again as "Last, First" segments
\* with no separator and tokenized again, give the same pairs.
C9_TokenizerIdempotence ==
    pc \in {"dedup", "done"} =>
        CleanAll(FindAll(JoinSegments(name_list_with_duplicates)))
            = name_list_with_duplicates

-----------------------------------------------------------------------------
(* Claims about display_funding_info *)

FilterLines == {160, 161}

\* the indices of funding_data the filter loop has decided
Decided ==
    IF pc = "filter" \/ (pc = "raised" /\ result[3] \in FilterLines)
    THEN 1..(pos - 1)
    ELSE IF \/ pc = "project"
            \/ pc = "returned" /\ funding_data # <<>>
            \/ pc = "raised" /\ result[3] \notin FilterLines \cup {143}
    THEN 1..Len(funding_data)
    ELSE {}

Parses(v) == IsStr(v) /\ ParseDatePart(v[2]) # <<>>

\* the calendar dates the filter rule of spec 4.3 compares
BudgetEndOf(g) == ParseDatePart(g.budget_end[2])
ProjectEndOf(g) ==
    IF g.project_end_date = Absent THEN <<2020, 1, 1>>
    ELSE ParseDatePart(g.project_end_date[2])

HasUsableEnds(g) ==
    /\ Parses(g.budget_end)
    /\ g.project_end_date = Absent \/ Parses(g.project_end_date)

InActiveSet(g) == g \in Range(active_grants)

\* C1: a record the filter loop has decided, whose budget_end parses and
\* whose project_end_date is absent (then 2020-01-01) or parses, is in the
\* active set iff budget_end > today and project_end >= 2026-01-01, by
\* calendar date: budget_end = today is out, project_end on the cutoff is in,
\* project_end one day before it is out, no project_end_date field is out.
C1_ActiveIff ==
    \A i \in Decided :
        LET g == funding_data[i]
        IN  HasUsableEnds(g) =>
              /\ InActiveSet(g) <=>
                    /\ DateLess(today, BudgetEndOf(g))
                    /\ ~DateLess(ProjectEndOf(g), <<2026, 1, 1>>)
              /\ BudgetEndOf(g) = today => ~InActiveSet(g)
              /\ ProjectEndOf(g) = <<2026, 1, 1>> /\ DateLess(today, BudgetEndOf(g))
                    => InActiveSet(g)
              /\ ProjectEndOf(g) = <<2025, 12, 31>> => ~InActiveSet(g)
              /\ g.project_end_date = Absent => ~InActiveSet(g)

C1_Witness ==
    /\ pc = "returned"
    /\ today = <<2025, 6, 1>>
    /\ funding_data = <<GrantBudgetEndsToday, GrantEndsOnCutoff>>
    /\ active_grants = <<GrantEndsOnCutoff>>

\* C2: a record whose project_end_date is present and does not parse, or
\* whose budget_end is missing or does not parse, is left out of the active
\* set and the call does not end at it.
C2_SkipsWithoutAbort ==
    \A i \in 1..Len(funding_data) :
        LET g == funding_data[i]
        IN  (\/ g.project_end_date # Absent /\ ~Parses(g.project_end_date)
             \/ ~Parses(g.budget_end))
            => /\ ~(pc = "raised" /\ result[3] \in FilterLines /\ pos = i)
               /\ i \in Decided => ~InActiveSet(g)

\* C7: every grant display_funding_info shows and returns has a project end
\* date strictly later than today.
C7_EndsAfterToday ==
    pc \in {"project", "returned"} =>
        \A k \in 1..Len(active_grants) :
            /\ Parses(active_grants[k].project_end_date)
            /\ DateLess(today, ProjectEndOf(active_grants[k]))

MissingOrNull(v) == v \in {Absent, None}

\* what spec 4.4 asks of a date field of the report
DateRendered(v, shown) ==
    /\ MissingOrNull(v) => shown = NA
    /\ (IsStr(v) /\ v[2] # <<>> /\ ~Parses(v)) => shown = v

\* C10: the projection never raises; in the report record every missing or
\* null source field reads "N/A", so does a missing or non-numeric award
\* amount, and a date string that does not parse is passed through unchanged.
C10_ProjectionTotal ==
    /\ ~(pc = "raised" /\ result[3] \notin FilterLines \cup {143})
    /\ \A k \in 1..Len(grant_list) :
         LET g == active_grants[k]
             r == grant_list[k]
         IN  /\ MissingOrNull(g.project_num) => r.grant_num = NA
             /\ MissingOrNull(g.contact_pi_name) => r.pi_name = NA
             /\ MissingOrNull(g.project_title) => r.title = NA
             /\ MissingOrNull(g.fiscal_year) => r.fy = NA
             /\ (MissingOrNull(g.organization) \/ MissingOrNull(g.organization[2]))
                   => r.org_name = NA
             /\ g.award_amount[1] # "int" => r.award_amount = NA
             /\ DateRendered(g.project_start_date, r.start_date)
             /\ DateRendered(g.project_end_date, r.end_date)
             /\ DateRendered(g.budget_start, r.budget_start)
             /\ DateRendered(g.budget_end, r.budget_end)

-----------------------------------------------------------------------------
(* Claims about the roster loop *)

\* C3: whatever the queries do, the roster loop processes every entry in
\* order and reaches the export; nothing raises out of the script.
C3_NoFatalError == pc # "raised"

\* the report rows one query outcome contributes: the projection of the
\* records of its result that satisfy the rule of spec 4.3, in result order
RECURSIVE ActiveRows(_)
ActiveRows(rs) ==
    IF rs = <<>> THEN <<>>
    ELSE IF /\ HasUsableEnds(Head(rs))
            /\ DateLess(today, BudgetEndOf(Head(rs)))
            /\ DateLessOrEqual(<<2026, 1, 1>>, ProjectEndOf(Head(rs)))
         THEN <<ProjectOne(Head(rs))[2]>> \o ActiveRows(Tail(rs))
         ELSE ActiveRows(Tail(rs))

ExpectedReport ==
    Concat([i \in 1..Len(outcomes) |->
               IF outcomes[i][1] = "results" THEN ActiveRows(outcomes[i][2])
               ELSE <<>>])

RowsOf(v) == IF v[1] = "list" THEN v[2] ELSE <<>>

\* C4: once the loop is through the first k roster entries, grant_lists is
\* the concatenation, in roster order, of the projected active records of
\* those k queries, each in the order the query returned them; this holds
\* too when an entry that yields no record comes first.
C4_AggregationOrder ==
    (pc \in {"loop", "exported"} \/ (pc = "raised" /\ result[3] = 283))
        => RowsOf(grant_lists) = ExpectedReport

====
